---- MODULE Spec2Model ----
(***************************************************************************)
(* State-machine model of the GVM guest agent (src/src/guest.rs `main`),   *)
(* its transport wrappers (src/src/linux/comms.rs) and the network         *)
(* provisioner (src/src/linux/networking.rs).                              *)
(*                                                                         *)
(* Conventions.                                                            *)
(*  - A Rust Option<T> is a sequence of length <= 1: None == <<>>,         *)
(*    Some(x) == <<x>>.                                                    *)
(*  - A message text (PluginMsg.msg) is a sequence of bytes, so that the   *)
(*    CString conversion of guest.rs:164 can fail on an interior 0 byte.   *)
(*  - A gateway string is kept as the sequence of its '/'-separated        *)
(*    segments: the address as a token, a later segment as <<n>> when it   *)
(*    is the decimal text of n and as <<>> when it is not a number.        *)
(*  - A Rust panic (a failed unwrap, an index out of bounds, an overflow   *)
(*    in a debug build) ends the process: pc = "panic".                    *)
(*  - The plugin binaries and the C transport are external: a plugin       *)
(*    entry point returns a null pointer or valid text, read_comms returns *)
(*    valid text.  /sys/class/net can be listed.                           *)
(*                                                                         *)
(* Specifications.                                                         *)
(*  - Spec: main from process start to its end, and restarts; init_net is  *)
(*    one step of it.                                                      *)
(*  - NetSpec: one call of init_net, descriptor by descriptor, with the    *)
(*    files it writes and the commands it runs.                            *)
(*  - MaskSpec: the netmask arithmetic of systemd_networking on every      *)
(*    prefix length 0..32.                                                 *)
(***************************************************************************)
EXTENDS Integers, Sequences, FiniteSets, TLC

\* ------------------------------------------------------------ bounds
\* Inbound messages read by one run of the agent.
MaxMsgs == 3
\* Restarts of the agent process.
MaxRuns == 2
\* Descriptors in one batch handed to init_net.
MaxNets == 2

\* ------------------------------------------------------------ data
None == <<>>
Some(x) == <<x>>
IsSome(o) == Len(o) = 1
Unwrap(o) == o[1]

PluginIds == {"p1", "p2"}
Fns == {"start", "cmd_process", "stop"}

\* common.rs GVMCmd
GVMCmd ==
  {"GetNetwork", "StartPlugin", "CreatePluginLinks", "PluginCmd", "StopPlugin",
   "ShutdownGuest"}

\* common.rs Display for GVMError: the name of the variant.
ErrorToString(e) ==
  CASE e = "IOError" -> "IOError"
    [] e = "NicNotFound" -> "NicNotFound"
    [] e = "PluginNotFound" -> "PluginNotFound"
    [] e = "PluginLoaded" -> "PluginLoaded"
    [] e = "PluginCommandNotSupported" -> "PluginCommandNotSupported"

\* common.rs Command, the guest -> host message.
Command(c, r, f) == [cmd |-> c, resp |-> r, finished |-> f]

\* Message texts the host puts in PluginMsg.msg: plain, and with an interior NUL.
MsgTexts == {<<1>>, <<1, 0, 1>>}
MsgOpts == {None} \cup {Some(t) : t \in MsgTexts}

\* What a plugin entry point returns: a null pointer or text.
Returns == {None, Some("text")}

\* What the filesystem holds at a plugin's path when CreatePluginLinks looks.
FileStates == {"missing", "unloadable", "ok"}

\* ------------------------------------------------------------ network data
\* /sys/class/net as read_dir lists it: name, address file content, and whether
\* the address file can be read.
Nic(n, m, r) == [name |-> n, mac |-> m, readable |-> r]
SysGood == <<Nic("eth0", "m1", TRUE), Nic("eth1", "m2", TRUE)>>
SysBad == <<Nic("eth0", "m1", TRUE), Nic("eth1", "m2", FALSE)>>
SysNets == {SysGood, SysBad}

Network(m, i, g) == [mac |-> m, ip |-> i, gateway |-> g]
NetA == Network("m1", "ipA", <<"gw", <<24>>>>)
NetB == Network("m2", "ipB", <<"gw", <<16>>>>)
NetX == Network("mX", "ipX", <<"gw", <<24>>>>)
NetNoSlash == Network("m1", "ipA", <<"gw">>)

\* Descriptor lists the host answers GetNetwork with.
BootNets == {<<>>, <<NetA>>, <<NetX>>, <<NetA, NetB>>, <<NetA, NetX>>, <<NetNoSlash>>}

\* The guest's environment when init_net runs.
NetEnvs ==
  [netplan : BOOLEAN, sys : SysNets, fsOk : BOOLEAN, cmdOk : BOOLEAN,
   build : {"debug", "release"}]

\* ------------------------------------------------------------ wire messages
Garbage == [kind |-> "garbage"]
NetsRaw(l) == [kind |-> "nets", nets |-> l]
PluginRaw(c, p, m) == [kind |-> "plugin", cmd |-> c, plugin |-> p, msg |-> m]
NoRaw == [kind |-> "none"]

\* What the host sends; msg is populated only with PluginCmd.
RawMsgs ==
  {Garbage} \cup {NetsRaw(l) : l \in BootNets}
    \cup {PluginRaw(c, p, None) : c \in GVMCmd, p \in PluginIds}
    \cup {PluginRaw("PluginCmd", p, m) : p \in PluginIds, m \in MsgOpts}

\* serde_json::from_str::<Vec<Network>>
DecodeNets(raw) == IF raw.kind = "nets" THEN Some(raw.nets) ELSE None

\* serde_json::from_str::<PluginMsg>
DecodePluginMsg(raw) ==
  IF raw.kind = "plugin"
  THEN Some([cmd |-> raw.cmd, plugin |-> raw.plugin, msg |-> raw.msg])
  ELSE None

\* ------------------------------------------------------------ networking.rs
\* The result of a provisioner step: res is "Ok", an error name, or "panic".
NetErr(e) == [res |-> e]

\* find_mac: scan the interfaces in directory order; an unreadable address file
\* is an IOError (the ? of line 30), the first matching address wins.
RECURSIVE FindMacFrom(_, _, _)
FindMacFrom(mac, sys, i) ==
  IF i > Len(sys) THEN NetErr("NicNotFound")
  ELSE IF ~sys[i].readable THEN NetErr("IOError")
  ELSE IF sys[i].mac = mac THEN [res |-> "Ok", nic |-> sys[i].name]
  ELSE FindMacFrom(mac, sys, i + 1)

find_mac(mac, sys) == FindMacFrom(mac, sys, 1)

\* str::parse::<u32>: the segment is the decimal text of a u32 (the text of a
\* number of 2^32 or more, a sign or a letter is kept as <<>>).
ParsesAsU32(seg) == Len(seg) = 1 /\ seg[1] >= 0

\* A u32 as its 32 bits, least significant first.
Bits == 1..32
U32Ones == [i \in Bits |-> 1]
U32Shl(w, n) == [i \in Bits |-> IF i - n >= 1 THEN w[i - n] ELSE 0]
U32Shr(w, n) == [i \in Bits |-> IF i + n <= 32 THEN w[i + n] ELSE 0]
U32And(w, m) == [i \in Bits |-> w[i] * m[i]]
\* The masks 0x000000FF, 0x0000FF00, 0x00FF0000, 0xFF000000 for k = 0..3.
ByteMask(k) == [i \in Bits |-> IF 8 * k < i /\ i <= 8 * k + 8 THEN 1 ELSE 0]
RECURSIVE BitsValue(_, _)
BitsValue(w, i) == IF i > 8 THEN 0 ELSE w[i] * 2 ^ (i - 1) + BitsValue(w, i + 1)
\* The value of a u32 known to be below 256.
U32Low(w) == BitsValue(w, 1)

\* The netmask arithmetic of lines 82-87 on u32.  A debug build panics on the
\* overflowing subtraction (cidr > 32) and on a shift by 32 or more; a release
\* build wraps the subtraction and masks the shift amount to its low 5 bits
\* (2^32 is a multiple of 32, so the wrapped difference and the difference agree
\* modulo 32).
NetmaskShift(cidr) == (32 - cidr) % 32
NetmaskPanics(cidr, build) == build = "debug" /\ (cidr > 32 \/ 32 - cidr >= 32)
NetmaskOg(cidr) == U32Shl(U32Ones, NetmaskShift(cidr))
Netmask(cidr) ==
  LET og == NetmaskOg(cidr)
      netmask_1 == U32Low(U32And(og, ByteMask(0)))
      netmask_2 == U32Low(U32Shr(U32And(og, ByteMask(1)), 8))
      netmask_3 == U32Low(U32Shr(U32And(og, ByteMask(2)), 16))
      netmask_4 == U32Low(U32Shr(U32And(og, ByteMask(3)), 24))
  IN <<netmask_4, netmask_3, netmask_2, netmask_1>>

\* netplan_networking: the YAML stanza of one descriptor.
netplan_networking(net, env) ==
  LET f == find_mac(net.mac, env.sys)
  IN IF f.res # "Ok" THEN NetErr(f.res)
     ELSE IF Len(net.gateway) < 2 THEN NetErr("panic")
     ELSE [res |-> "Ok",
           stanza |-> [nic |-> f.nic, ip |-> net.ip, prefix |-> net.gateway[2],
                       gateway4 |-> net.gateway[1]]]

\* systemd_networking: write the ifcfg file of one descriptor.
systemd_networking(net, env) ==
  LET f == find_mac(net.mac, env.sys)
  IN IF f.res # "Ok" THEN NetErr(f.res)
     ELSE IF Len(net.gateway) < 2 THEN NetErr("panic")
     ELSE IF ~ParsesAsU32(net.gateway[2]) THEN NetErr("panic")
     ELSE IF NetmaskPanics(net.gateway[2][1], env.build) THEN NetErr("panic")
     ELSE IF ~env.fsOk THEN NetErr("panic")
     ELSE [res |-> "Ok",
           file |-> [path |-> <<"ifcfg", f.nic>>,
                     body |-> [hwaddr |-> net.mac, netmask |-> Netmask(net.gateway[2][1]),
                               gateway |-> net.gateway[1], ipaddr |-> net.ip,
                               device |-> f.nic]]]

\* The for loop of init_net from descriptor i on: stanzas accumulated so far
\* (netplan) and files written so far (systemd).
RECURSIVE InitNetLoop(_, _, _, _, _)
InitNetLoop(nets, i, env, contents, files) ==
  IF i > Len(nets) THEN [res |-> "Ok", contents |-> contents, files |-> files]
  ELSE IF env.netplan
  THEN LET r == netplan_networking(nets[i], env)
       IN IF r.res # "Ok" THEN [res |-> r.res, contents |-> contents, files |-> files]
          ELSE InitNetLoop(nets, i + 1, env, Append(contents, r.stanza), files)
  ELSE LET r == systemd_networking(nets[i], env)
       IN IF r.res # "Ok" THEN [res |-> r.res, contents |-> contents, files |-> files]
          ELSE InitNetLoop(nets, i + 1, env, contents, Append(files, r.file))

\* init_net: res, the files written in order, the system commands run in order.
init_net(nets, env) ==
  LET l == InitNetLoop(nets, 1, env, <<>>, <<>>)
  IN IF l.res # "Ok" THEN [res |-> l.res, files |-> l.files, cmds |-> <<>>]
     ELSE IF env.netplan /\ Len(nets) > 0
     THEN IF ~env.fsOk THEN [res |-> "panic", files |-> l.files, cmds |-> <<>>]
          ELSE LET fs == Append(l.files, [path |-> <<"netplan">>, body |-> l.contents])
               IN IF ~env.cmdOk THEN [res |-> "panic", files |-> fs, cmds |-> <<>>]
                  ELSE [res |-> "Ok", files |-> fs, cmds |-> <<"netplan apply">>]
     ELSE IF Len(nets) > 0
     THEN IF ~env.cmdOk THEN [res |-> "panic", files |-> l.files, cmds |-> <<>>]
          ELSE [res |-> "Ok", files |-> l.files, cmds |-> <<"systemctl restart network">>]
     ELSE [res |-> "Ok", files |-> l.files, cmds |-> <<>>]

\* ------------------------------------------------------------ guest.rs state
VARIABLES
  pc,        \* where main is: "start", "boot_read" (line 81 loop), "mark" (line 110),
             \* "service" (line 113 loop), "done" (Ok), "err" (Err(IOError)), "panic"
  marker,    \* /tmp/init-nets exists
  plugins,   \* the HashMap of line 71: identifier -> Some(handle), NoHandle when absent
  nRead,     \* messages read by this run
  runs,      \* restarts so far
  last,      \* the last step: where it ran, the raw message read, the entry points
             \* invoked and the Commands handed to write_command, in order
  calls,     \* this run: entry-point invocations per plugin and function
  okReqs,    \* this run: successful Start/PluginCmd/Stop requests per plugin and function
  reqSent,   \* this run: GetNetwork requests sent
  provRun,   \* this run: init_net invocations
  provAll,   \* all runs: init_net invocations
  netRes,    \* this run: what init_net returned, None before
  served,    \* some earlier or the current run reached the service loop
  disk,      \* what the last CreatePluginLinks request found at the module's path
  np         \* the network provisioner stepped on its own: position and effects

vars ==
  <<pc, marker, plugins, nRead, runs, last, calls, okReqs, reqSent, provRun, provAll,
    netRes, served, disk, np>>

NoHandle == None
Loaded(reg) == {p \in PluginIds : reg[p] # NoHandle}
\* A fresh handle: Container::load returns a new container on every success.
NewHandle(reg) == Cardinality(Loaded(reg)) + 1

Step(at, raw, inv, wrote) == [at |-> at, raw |-> raw, inv |-> inv, wrote |-> wrote]
NoCalls == [k \in PluginIds \X Fns |-> 0]
\* One invocation of a plugin entry point and what it returned.
Call(name, fn, ret) == [plugin |-> name, fn |-> fn, ret |-> ret]
Occurrences(seq, k) ==
  Cardinality({i \in 1..Len(seq) : seq[i].plugin = k[1] /\ seq[i].fn = k[2]})
AddCalls(c, inv) == [k \in PluginIds \X Fns |-> c[k] + Occurrences(inv, k)]

\* The provisioner is not being stepped on its own.
NpIdle == [at |-> "idle"]

\* The process state of a fresh run; marker, provAll and served outlive the process.
FreshRun ==
  /\ pc' = "start"
  /\ plugins' = [p \in PluginIds |-> NoHandle]
  /\ nRead' = 0
  /\ last' = Step("none", NoRaw, <<>>, <<>>)
  /\ calls' = NoCalls
  /\ okReqs' = NoCalls
  /\ reqSent' = 0
  /\ provRun' = 0
  /\ netRes' = None

Init ==
  /\ pc = "start"
  /\ marker \in BOOLEAN
  /\ plugins = [p \in PluginIds |-> NoHandle]
  /\ nRead = 0
  /\ runs = 0
  /\ last = Step("none", NoRaw, <<>>, <<>>)
  /\ calls = NoCalls
  /\ okReqs = NoCalls
  /\ reqSent = 0
  /\ provRun = 0
  /\ provAll = 0
  /\ netRes = None
  /\ served = FALSE
  /\ disk = None
  /\ np = NpIdle

\* comms.rs write_command: Ok when write_comms returns 1, else Err(IOError).
write_command(wok) == IF wok THEN "Ok" ELSE "IOError"

\* ------------------------------------------------------------ bootstrap
\* Lines 73-80: init_communications, the marker test, the GetNetwork request.
Startup ==
  /\ pc = "start"
  /\ \E cok \in BOOLEAN, wok \in BOOLEAN :
       IF ~cok
       THEN /\ pc' = "err"
            /\ UNCHANGED <<last, reqSent>>
       ELSE IF ~marker
       THEN /\ last' = Step("start", NoRaw, <<>>, <<Command("GetNetwork", None, None)>>)
            /\ reqSent' = reqSent + 1
            /\ pc' = IF write_command(wok) = "Ok" THEN "boot_read" ELSE "err"
       ELSE /\ pc' = "mark"
            /\ UNCHANGED <<last, reqSent>>
  /\ UNCHANGED <<marker, plugins, nRead, runs, calls, okReqs, provRun, provAll, netRes,
                 served>>
  /\ UNCHANGED <<disk, np>>

\* The bootstrap loop asking again after a reply that is no descriptor list.
BootMalformed_Resends ==
  /\ pc = "boot_read"
  /\ nRead < MaxMsgs
  /\ \E raw \in RawMsgs :
       /\ DecodeNets(raw) = None
       /\ last' = Step("boot_read", raw, <<>>, <<Command("GetNetwork", None, None)>>)
  /\ nRead' = nRead + 1
  /\ reqSent' = reqSent + 1
  /\ UNCHANGED <<pc, marker, plugins, runs, calls, okReqs, provRun, provAll,
                 netRes, served>>
  /\ UNCHANGED <<disk, np>>

\* Lines 82-87: a reply that is no descriptor list is dropped and the loop reads again.
BootMalformed ==
  /\ pc = "boot_read"
  /\ nRead < MaxMsgs
  /\ \E raw \in RawMsgs :
       /\ DecodeNets(raw) = None
       /\ last' = Step("boot_read", raw, <<>>, <<>>)
  /\ nRead' = nRead + 1
  /\ UNCHANGED <<pc, marker, plugins, runs, calls, okReqs, reqSent, provRun, provAll,
                 netRes, served>>
  /\ UNCHANGED <<disk, np>>

\* Lines 89-103: resp and finished of the GetNetwork response from init_net's result.
BootResponse(res) ==
  IF res # "Ok"
  THEN Command("GetNetwork", Some(ErrorToString(res)), Some(FALSE))
  ELSE Command("GetNetwork", None, Some(TRUE))

\* The bootstrap with init_net's result propagated by `?`: an IOError from the
\* provisioner ends main instead of being answered.
BootProvision_IOErrorFatal ==
  /\ pc = "boot_read"
  /\ nRead < MaxMsgs
  /\ \E raw \in RawMsgs, env \in NetEnvs, wok \in BOOLEAN :
       /\ DecodeNets(raw) # None
       /\ LET r == init_net(Unwrap(DecodeNets(raw)), env)
          IN IF r.res = "panic"
             THEN /\ last' = Step("boot_read", raw, <<>>, <<>>)
                  /\ netRes' = None
                  /\ pc' = "panic"
             ELSE IF r.res = "IOError"
             THEN /\ last' = Step("boot_read", raw, <<>>, <<>>)
                  /\ netRes' = Some(r.res)
                  /\ pc' = "err"
             ELSE /\ last' = Step("boot_read", raw, <<>>, <<BootResponse(r.res)>>)
                  /\ netRes' = Some(r.res)
                  /\ pc' = IF write_command(wok) = "Ok" THEN "mark" ELSE "err"
  /\ nRead' = nRead + 1
  /\ provRun' = provRun + 1
  /\ provAll' = provAll + 1
  /\ UNCHANGED <<marker, plugins, runs, calls, okReqs, reqSent, served>>
  /\ UNCHANGED <<disk, np>>

\* Lines 82-106: the first descriptor list is provisioned and answered.
BootProvision ==
  /\ pc = "boot_read"
  /\ nRead < MaxMsgs
  /\ \E raw \in RawMsgs, env \in NetEnvs, wok \in BOOLEAN :
       /\ DecodeNets(raw) # None
       /\ LET r == init_net(Unwrap(DecodeNets(raw)), env)
          IN IF r.res = "panic"
             THEN /\ last' = Step("boot_read", raw, <<>>, <<>>)
                  /\ netRes' = None
                  /\ pc' = "panic"
             ELSE /\ last' = Step("boot_read", raw, <<>>, <<BootResponse(r.res)>>)
                  /\ netRes' = Some(r.res)
                  /\ pc' = IF write_command(wok) = "Ok" THEN "mark" ELSE "err"
  /\ nRead' = nRead + 1
  /\ provRun' = provRun + 1
  /\ provAll' = provAll + 1
  /\ UNCHANGED <<marker, plugins, runs, calls, okReqs, reqSent, served>>
  /\ UNCHANGED <<disk, np>>

\* The marker's creation with its failure ignored instead of unwrapped.
CreateMarker_IgnoresFailure ==
  /\ pc = "mark"
  /\ \E fok \in BOOLEAN :
       /\ marker' = (marker \/ fok)
       /\ pc' = "service"
       /\ served' = TRUE
  /\ UNCHANGED <<plugins, nRead, runs, last, calls, okReqs, reqSent, provRun, provAll,
                 netRes>>
  /\ UNCHANGED <<disk, np>>

\* Lines 110-111: File::create(..).unwrap(); the result of write_all is dropped.
CreateMarker ==
  /\ pc = "mark"
  /\ \E fok \in BOOLEAN :
       IF fok
       THEN /\ marker' = TRUE
            /\ pc' = "service"
            /\ served' = TRUE
       ELSE /\ pc' = "panic"
            /\ UNCHANGED <<marker, served>>
  /\ UNCHANGED <<plugins, nRead, runs, last, calls, okReqs, reqSent, provRun, provAll,
                 netRes>>
  /\ UNCHANGED <<disk, np>>

\* ------------------------------------------------------------ service loop
\* What a match arm leaves behind: the registry, fin, resp, the entry points it
\* invoked in order, and whether it panicked.
Arm(reg, fin, resp, inv) == [reg |-> reg, fin |-> fin, resp |-> resp, inv |-> inv, panic |-> FALSE]
ArmPanic(reg, inv) == [reg |-> reg, fin |-> FALSE, resp |-> None, inv |-> inv, panic |-> TRUE]

\* CString::new: an interior 0 byte is an error, otherwise a 0 byte is appended.
CStringNew(text) ==
  IF \E i \in 1..Len(text) : text[i] = 0 THEN None ELSE Some(Append(text, 0))

\* The CreatePluginLinks arm without the contains_key test of line 127: a second
\* load replaces the entry.
CreatePluginLinksArm_NoLookup(reg, name, fs) ==
  IF fs = "ok"
  THEN Arm([reg EXCEPT ![name] = Some(NewHandle(reg))], TRUE, None, <<>>)
  ELSE Arm(reg, FALSE, Some(ErrorToString("PluginNotFound")), <<>>)

\* The CreatePluginLinks arm looking at the filesystem before the registry.
CreatePluginLinksArm_FileFirst(reg, name, fs) ==
  IF fs # "ok" THEN Arm(reg, FALSE, Some(ErrorToString("PluginNotFound")), <<>>)
  ELSE IF reg[name] # NoHandle
  THEN Arm(reg, FALSE, Some(ErrorToString("PluginLoaded")), <<>>)
  ELSE Arm([reg EXCEPT ![name] = Some(NewHandle(reg))], TRUE, None, <<>>)

\* Lines 126-145.
CreatePluginLinksArm(reg, name, fs) ==
  IF reg[name] = NoHandle
  THEN IF fs = "missing" THEN Arm(reg, FALSE, Some(ErrorToString("PluginNotFound")), <<>>)
       ELSE IF fs = "unloadable"
       THEN Arm(reg, FALSE, Some(ErrorToString("PluginNotFound")), <<>>)
       ELSE Arm([reg EXCEPT ![name] = Some(NewHandle(reg))], TRUE, None, <<>>)
  ELSE Arm(reg, FALSE, Some(ErrorToString("PluginLoaded")), <<>>)

\* The StartPlugin arm without the contains_key test of line 147.
StartPluginArm_NoLookup(reg, name, ret) == Arm(reg, TRUE, ret, <<Call(name, "start", ret)>>)

\* Lines 146-160.
StartPluginArm(reg, name, ret) ==
  IF reg[name] # NoHandle
  THEN Arm(reg, TRUE, ret, <<Call(name, "start", ret)>>)
  ELSE Arm(reg, FALSE, Some(ErrorToString("PluginNotFound")), <<>>)

\* The PluginCmd arm forwarding an absent msg as an empty text.
PluginCmdArm_ForwardsAbsent(reg, name, msg, ret) ==
  IF reg[name] # NoHandle
  THEN IF IsSome(msg) /\ CStringNew(Unwrap(msg)) = None THEN ArmPanic(reg, <<>>)
       ELSE Arm(reg, TRUE, ret, <<Call(name, "cmd_process", ret)>>)
  ELSE Arm(reg, FALSE, Some(ErrorToString("PluginNotFound")), <<>>)

\* Lines 161-179.
PluginCmdArm(reg, name, msg, ret) ==
  IF reg[name] # NoHandle
  THEN IF IsSome(msg)
       THEN IF CStringNew(Unwrap(msg)) = None THEN ArmPanic(reg, <<>>)
            ELSE Arm(reg, TRUE, ret, <<Call(name, "cmd_process", ret)>>)
       ELSE Arm(reg, FALSE, None, <<>>)
  ELSE Arm(reg, FALSE, Some(ErrorToString("PluginNotFound")), <<>>)

\* The StopPlugin arm indexing the map without the contains_key test of line 181:
\* an identifier that is not registered panics.
StopPluginArm_UnknownPanics(reg, name, ret1, ret2) ==
  IF reg[name] # NoHandle
  THEN Arm(reg, TRUE, ret2, <<Call(name, "stop", ret1), Call(name, "stop", ret2)>>)
  ELSE ArmPanic(reg, <<>>)

\* The StopPlugin arm removing the stopped plugin's entry from the map.
StopPluginArm_Unregisters(reg, name, ret1, ret2) ==
  IF reg[name] # NoHandle
  THEN Arm([reg EXCEPT ![name] = NoHandle], TRUE, ret2,
           <<Call(name, "stop", ret1), Call(name, "stop", ret2)>>)
  ELSE Arm(reg, FALSE, Some(ErrorToString("PluginNotFound")), <<>>)

\* Lines 180-195: stop() is called at line 182 and again at line 183; resp is taken
\* from the second call.
StopPluginArm(reg, name, ret1, ret2) ==
  IF reg[name] # NoHandle
  THEN Arm(reg, TRUE, ret2, <<Call(name, "stop", ret1), Call(name, "stop", ret2)>>)
  ELSE Arm(reg, FALSE, Some(ErrorToString("PluginNotFound")), <<>>)

\* The default arm treating the command as served: fin stays true, resp stays None.
UnsupportedArm_Accepts(reg) == Arm(reg, TRUE, None, <<>>)

\* Lines 199-202.
UnsupportedArm(reg) ==
  Arm(reg, FALSE, Some(ErrorToString("PluginCommandNotSupported")), <<>>)

\* The plugin function a command forwards to.
FnOf(cmd) ==
  CASE cmd = "StartPlugin" -> "start"
    [] cmd = "PluginCmd" -> "cmd_process"
    [] cmd = "StopPlugin" -> "stop"

\* Lines 204-208 after an arm: the response is written, a failed write ends main.
Respond(raw, command, a, wok) ==
  /\ plugins' = a.reg
  /\ calls' = AddCalls(calls, a.inv)
  /\ okReqs' =
       IF a.fin /\ command.cmd \in {"StartPlugin", "PluginCmd", "StopPlugin"}
       THEN [okReqs EXCEPT ![<<command.plugin, FnOf(command.cmd)>>] = @ + 1]
       ELSE okReqs
  /\ nRead' = nRead + 1
  /\ IF a.panic
     THEN /\ last' = Step("service", raw, a.inv, <<>>)
          /\ pc' = "panic"
     ELSE /\ last' = Step("service", raw, a.inv, <<Command(command.cmd, a.resp, Some(a.fin))>>)
          /\ pc' = IF write_command(wok) = "Ok" THEN "service" ELSE "err"
  /\ UNCHANGED <<marker, runs, reqSent, provRun, provAll, netRes, served>>
  /\ UNCHANGED np

\* The message read at line 115 decodes to a PluginMsg with this command.
Reads(raw, cmd) ==
  /\ DecodePluginMsg(raw) # None
  /\ Unwrap(DecodePluginMsg(raw)).cmd = cmd

\* A message that is no PluginMsg ending main with an error instead of `continue`.
SvcMalformed_Fatal ==
  /\ pc = "service"
  /\ nRead < MaxMsgs
  /\ \E raw \in RawMsgs :
       /\ DecodePluginMsg(raw) = None
       /\ last' = Step("service", raw, <<>>, <<>>)
  /\ nRead' = nRead + 1
  /\ pc' = "err"
  /\ UNCHANGED <<marker, plugins, runs, calls, okReqs, reqSent, provRun, provAll,
                 netRes, served>>
  /\ disk' = None
  /\ UNCHANGED np

\* Lines 114-119: a message that is no PluginMsg is dropped and the loop reads again.
SvcMalformed ==
  /\ pc = "service"
  /\ nRead < MaxMsgs
  /\ \E raw \in RawMsgs :
       /\ DecodePluginMsg(raw) = None
       /\ last' = Step("service", raw, <<>>, <<>>)
  /\ nRead' = nRead + 1
  /\ UNCHANGED <<pc, marker, plugins, runs, calls, okReqs, reqSent, provRun, provAll,
                 netRes, served>>
  /\ disk' = None
  /\ UNCHANGED np

SvcCreatePluginLinks ==
  /\ pc = "service"
  /\ nRead < MaxMsgs
  /\ \E raw \in RawMsgs, fs \in FileStates, wok \in BOOLEAN :
       /\ Reads(raw, "CreatePluginLinks")
       /\ LET command == Unwrap(DecodePluginMsg(raw))
          IN Respond(raw, command, CreatePluginLinksArm(plugins, command.plugin, fs), wok)
       /\ disk' = Some(fs)

SvcStartPlugin ==
  /\ pc = "service"
  /\ nRead < MaxMsgs
  /\ \E raw \in RawMsgs, ret \in Returns, wok \in BOOLEAN :
       /\ Reads(raw, "StartPlugin")
       /\ LET command == Unwrap(DecodePluginMsg(raw))
          IN Respond(raw, command, StartPluginArm(plugins, command.plugin, ret), wok)
  /\ disk' = None

SvcPluginCmd ==
  /\ pc = "service"
  /\ nRead < MaxMsgs
  /\ \E raw \in RawMsgs, ret \in Returns, wok \in BOOLEAN :
       /\ Reads(raw, "PluginCmd")
       /\ LET command == Unwrap(DecodePluginMsg(raw))
          IN Respond(raw, command,
                     PluginCmdArm(plugins, command.plugin, command.msg, ret), wok)
  /\ disk' = None

SvcStopPlugin ==
  /\ pc = "service"
  /\ nRead < MaxMsgs
  /\ \E raw \in RawMsgs, ret1 \in Returns, ret2 \in Returns, wok \in BOOLEAN :
       /\ Reads(raw, "StopPlugin")
       /\ LET command == Unwrap(DecodePluginMsg(raw))
          IN Respond(raw, command,
                     StopPluginArm(plugins, command.plugin, ret1, ret2), wok)
  /\ disk' = None

\* ShutdownGuest falling through to the write of line 204 and staying in the loop.
SvcShutdownGuest_Responds ==
  /\ pc = "service"
  /\ nRead < MaxMsgs
  /\ \E raw \in RawMsgs, wok \in BOOLEAN :
       /\ Reads(raw, "ShutdownGuest")
       /\ Respond(raw, Unwrap(DecodePluginMsg(raw)), Arm(plugins, TRUE, None, <<>>), wok)
  /\ disk' = None

\* Lines 196-198 and 211: break out of the loop, main returns Ok(()).
SvcShutdownGuest ==
  /\ pc = "service"
  /\ nRead < MaxMsgs
  /\ \E raw \in RawMsgs :
       /\ Reads(raw, "ShutdownGuest")
       /\ last' = Step("service", raw, <<>>, <<>>)
  /\ nRead' = nRead + 1
  /\ pc' = "done"
  /\ UNCHANGED <<marker, plugins, runs, calls, okReqs, reqSent, provRun, provAll,
                 netRes, served>>
  /\ disk' = None
  /\ UNCHANGED np

\* Lines 199-208: every other command, which is GetNetwork.
SvcUnsupported ==
  /\ pc = "service"
  /\ nRead < MaxMsgs
  /\ \E raw \in RawMsgs, wok \in BOOLEAN :
       /\ DecodePluginMsg(raw) # None
       /\ Unwrap(DecodePluginMsg(raw)).cmd \notin
            {"CreatePluginLinks", "StartPlugin", "PluginCmd", "StopPlugin", "ShutdownGuest"}
       /\ Respond(raw, Unwrap(DecodePluginMsg(raw)), UnsupportedArm(plugins), wok)
  /\ disk' = None

\* The process ended (Ok, Err or panic) and the agent is started again: the heap
\* is gone, the filesystem is kept.
Restart ==
  /\ pc \in {"done", "err", "panic"}
  /\ runs < MaxRuns
  /\ runs' = runs + 1
  /\ FreshRun
  /\ disk' = None
  /\ UNCHANGED <<marker, provAll, served, np>>

Next ==
  \/ Startup
  \/ BootMalformed
  \/ BootProvision
  \/ CreateMarker
  \/ SvcMalformed
  \/ SvcCreatePluginLinks
  \/ SvcStartPlugin
  \/ SvcPluginCmd
  \/ SvcStopPlugin
  \/ SvcShutdownGuest
  \/ SvcUnsupported
  \/ Restart

Spec == Init /\ [][Next]_vars

\* ------------------------------------------------------------ the netmask alone
\* The agent's own variables while only the provisioner is looked at: main is not
\* running.
AgentOff ==
  /\ pc = "off"
  /\ marker = FALSE
  /\ plugins = [p \in PluginIds |-> NoHandle]
  /\ nRead = 0
  /\ runs = 0
  /\ last = Step("none", NoRaw, <<>>, <<>>)
  /\ calls = NoCalls
  /\ okReqs = NoCalls
  /\ reqSent = 0
  /\ provRun = 0
  /\ provAll = 0
  /\ netRes = None
  /\ served = FALSE
  /\ disk = None

agentVars ==
  <<pc, marker, plugins, nRead, runs, last, calls, okReqs, reqSent, provRun, provAll,
    netRes, served, disk>>

Builds == {"debug", "release"}
\* The prefix lengths of IPv4, the range line 81's cidr is meant for.
Prefixes == 0..32

\* Line 81 has parsed the prefix; lines 82-87 are about to run.
MaskInit ==
  /\ AgentOff
  /\ np \in {[at |-> "mask", cidr |-> c, build |-> b] : c \in Prefixes, b \in Builds}

\* Lines 82-87 and the NETMASK line of 95: the four octets, most significant first.
MaskCompute ==
  /\ np.at = "mask"
  /\ np' = IF NetmaskPanics(np.cidr, np.build)
           THEN [at |-> "panic", cidr |-> np.cidr, build |-> np.build]
           ELSE [at |-> "masked", cidr |-> np.cidr, build |-> np.build,
                 netmask |-> Netmask(np.cidr)]
  /\ UNCHANGED agentVars

MaskNext == MaskCompute

MaskSpec == MaskInit /\ [][MaskNext]_vars

\* ------------------------------------------------------------ init_net stepped
\* A second descriptor for eth0 with another address, and the descriptors a batch
\* is made of.
NetA2 == Network("m1", "ipC", <<"gw2", <<16>>>>)
NetDescs == {NetA, NetA2, NetB, NetX, NetNoSlash}
NetLists == UNION {[1..n -> NetDescs] : n \in 0..MaxNets}

\* init_net entered with nets: line 119 has tested /etc/netplan (env.netplan, kept
\* in the local of that name), contents and nets_len are set, the loop is at its
\* first descriptor.  dirNow is whether /etc/netplan is a directory at present;
\* files are the writes so far, cmds the system commands run so far, in order.
NpStart(nets, env) ==
  [at |-> "loop", nets |-> nets, env |-> env, dirNow |-> env.netplan, i |-> 1,
   contents |-> <<>>, files |-> <<>>, cmds |-> <<>>, res |-> "none"]

\* init_net left: with Ok or an error ("ret"), or by a panic.
NpEnd(res) == IF res = "panic" THEN "panic" ELSE "ret"

NetInit ==
  /\ AgentOff
  /\ np \in {NpStart(nets, env) : nets \in NetLists, env \in NetEnvs}

\* Somebody else creates or removes /etc/netplan while init_net runs.
NetplanDirChanges ==
  /\ np.at = "loop"
  /\ np' = [np EXCEPT !.dirNow = ~@]
  /\ UNCHANGED agentVars

\* One iteration of the loop re-testing /etc/netplan instead of using the local
\* of line 119.
NetDescriptor_RetestsDir ==
  /\ np.at = "loop"
  /\ np.i <= Len(np.nets)
  /\ IF np.dirNow
     THEN LET r == netplan_networking(np.nets[np.i], np.env)
          IN np' = IF r.res # "Ok"
                   THEN [np EXCEPT !.at = NpEnd(r.res), !.res = r.res]
                   ELSE [np EXCEPT !.i = @ + 1, !.contents = Append(@, r.stanza)]
     ELSE LET r == systemd_networking(np.nets[np.i], np.env)
          IN np' = IF r.res # "Ok"
                   THEN [np EXCEPT !.at = NpEnd(r.res), !.res = r.res]
                   ELSE [np EXCEPT !.i = @ + 1, !.files = Append(@, r.file)]
  /\ UNCHANGED agentVars

\* One iteration of the loop passing over a descriptor without interface instead
\* of returning its error.
NetDescriptor_SkipsUnmatched ==
  /\ np.at = "loop"
  /\ np.i <= Len(np.nets)
  /\ IF np.env.netplan
     THEN LET r == netplan_networking(np.nets[np.i], np.env)
          IN np' = IF r.res = "NicNotFound" THEN [np EXCEPT !.i = @ + 1]
                   ELSE IF r.res # "Ok"
                   THEN [np EXCEPT !.at = NpEnd(r.res), !.res = r.res]
                   ELSE [np EXCEPT !.i = @ + 1, !.contents = Append(@, r.stanza)]
     ELSE LET r == systemd_networking(np.nets[np.i], np.env)
          IN np' = IF r.res = "NicNotFound" THEN [np EXCEPT !.i = @ + 1]
                   ELSE IF r.res # "Ok"
                   THEN [np EXCEPT !.at = NpEnd(r.res), !.res = r.res]
                   ELSE [np EXCEPT !.i = @ + 1, !.files = Append(@, r.file)]
  /\ UNCHANGED agentVars

\* One iteration of the loop passing over a descriptor whose MAC an earlier
\* descriptor of the batch already had.
NetDescriptor_KeepsFirstOfMac ==
  /\ np.at = "loop"
  /\ np.i <= Len(np.nets)
  /\ IF \E k \in 1..(np.i - 1) : np.nets[k].mac = np.nets[np.i].mac
     THEN np' = [np EXCEPT !.i = @ + 1]
     ELSE IF np.env.netplan
     THEN LET r == netplan_networking(np.nets[np.i], np.env)
          IN np' = IF r.res # "Ok"
                   THEN [np EXCEPT !.at = NpEnd(r.res), !.res = r.res]
                   ELSE [np EXCEPT !.i = @ + 1, !.contents = Append(@, r.stanza)]
     ELSE LET r == systemd_networking(np.nets[np.i], np.env)
          IN np' = IF r.res # "Ok"
                   THEN [np EXCEPT !.at = NpEnd(r.res), !.res = r.res]
                   ELSE [np EXCEPT !.i = @ + 1, !.files = Append(@, r.file)]
  /\ UNCHANGED agentVars

\* Lines 129-136: one iteration of the loop; an Err leaves init_net by the ?.
NetDescriptor ==
  /\ np.at = "loop"
  /\ np.i <= Len(np.nets)
  /\ IF np.env.netplan
     THEN LET r == netplan_networking(np.nets[np.i], np.env)
          IN np' = IF r.res # "Ok"
                   THEN [np EXCEPT !.at = NpEnd(r.res), !.res = r.res]
                   ELSE [np EXCEPT !.i = @ + 1, !.contents = Append(@, r.stanza)]
     ELSE LET r == systemd_networking(np.nets[np.i], np.env)
          IN np' = IF r.res # "Ok"
                   THEN [np EXCEPT !.at = NpEnd(r.res), !.res = r.res]
                   ELSE [np EXCEPT !.i = @ + 1, !.files = Append(@, r.file)]
  /\ UNCHANGED agentVars

\* The end of init_net without the nets_len tests of lines 138 and 142.
NetFinish_NoLenTest ==
  /\ np.at = "loop"
  /\ np.i > Len(np.nets)
  /\ LET doc == [path |-> <<"netplan">>, body |-> np.contents]
     IN np' =
          IF np.env.netplan
          THEN IF ~np.env.fsOk THEN [np EXCEPT !.at = "panic", !.res = "panic"]
               ELSE IF ~np.env.cmdOk
               THEN [np EXCEPT !.at = "panic", !.res = "panic", !.files = Append(@, doc)]
               ELSE [np EXCEPT !.at = "ret", !.res = "Ok", !.files = Append(@, doc),
                               !.cmds = Append(@, "netplan apply")]
          ELSE IF ~np.env.cmdOk THEN [np EXCEPT !.at = "panic", !.res = "panic"]
               ELSE [np EXCEPT !.at = "ret", !.res = "Ok",
                               !.cmds = Append(@, "systemctl restart network")]
  /\ UNCHANGED agentVars

\* Lines 138-146: after the loop, the netplan document is written and applied, or
\* the network service is restarted, when there was a descriptor; then Ok(()).
NetFinish ==
  /\ np.at = "loop"
  /\ np.i > Len(np.nets)
  /\ LET doc == [path |-> <<"netplan">>, body |-> np.contents]
     IN np' =
          IF np.env.netplan /\ Len(np.nets) > 0
          THEN IF ~np.env.fsOk THEN [np EXCEPT !.at = "panic", !.res = "panic"]
               ELSE IF ~np.env.cmdOk
               THEN [np EXCEPT !.at = "panic", !.res = "panic", !.files = Append(@, doc)]
               ELSE [np EXCEPT !.at = "ret", !.res = "Ok", !.files = Append(@, doc),
                               !.cmds = Append(@, "netplan apply")]
          ELSE IF Len(np.nets) > 0
          THEN IF ~np.env.cmdOk THEN [np EXCEPT !.at = "panic", !.res = "panic"]
               ELSE [np EXCEPT !.at = "ret", !.res = "Ok",
                               !.cmds = Append(@, "systemctl restart network")]
          ELSE [np EXCEPT !.at = "ret", !.res = "Ok"]
  /\ UNCHANGED agentVars

NetNext ==
  \/ NetplanDirChanges
  \/ NetDescriptor
  \/ NetFinish

NetSpec == NetInit /\ [][NetNext]_vars

\* The stepped provisioner and the operator main's model calls agree.
NetStepsAgree ==
  np.at \in {"ret", "panic"}
    => [res |-> np.res, files |-> np.files, cmds |-> np.cmds] = init_net(np.nets, np.env)

\* ------------------------------------------------------------ properties
\* This step read the raw message from the transport.
StepRead(raw) == nRead' = nRead + 1 /\ last'.raw = raw
\* This step is an iteration of the service loop that read raw.
Serves(raw) == pc = "service" /\ StepRead(raw)
PluginRaws == {raw \in RawMsgs : raw.kind = "plugin"}

\* C1: a CreatePluginLinks for an identifier already in the registry is answered
\* with resp = "PluginLoaded" and finished = false, and the registry keeps the one
\* entry of the first load, handle included; no identifier ever has two entries.
C1_DuplicateLoadRejected ==
  [][\A X \in PluginIds :
       /\ Len(plugins'[X]) <= 1
       /\ (Serves(PluginRaw("CreatePluginLinks", X, None)) /\ plugins[X] # NoHandle)
            => /\ last'.wrote =
                    <<Command("CreatePluginLinks", Some("PluginLoaded"), Some(FALSE))>>
               /\ plugins' = plugins]_vars

C1_Witness ==
  /\ last.at = "service"
  /\ last.raw = PluginRaw("CreatePluginLinks", "p1", None)
  /\ plugins["p1"] # NoHandle
  /\ last.wrote = <<Command("CreatePluginLinks", Some("PluginLoaded"), Some(FALSE))>>

\* C2: StartPlugin, PluginCmd or StopPlugin naming an identifier that is not in the
\* registry is answered with resp = "PluginNotFound" and finished = false, invokes
\* no entry point and leaves the registry as it was.
C2_UnknownPluginNotFound ==
  [][\A raw \in PluginRaws :
       (/\ Serves(raw)
        /\ raw.cmd \in {"StartPlugin", "PluginCmd", "StopPlugin"}
        /\ plugins[raw.plugin] = NoHandle)
         => /\ last'.wrote = <<Command(raw.cmd, Some("PluginNotFound"), Some(FALSE))>>
            /\ last'.inv = <<>>
            /\ calls' = calls
            /\ plugins' = plugins]_vars

C2_Witness ==
  /\ last.at = "service"
  /\ last.raw.kind = "plugin"
  /\ last.raw.cmd = "StopPlugin"
  /\ plugins[last.raw.plugin] = NoHandle
  /\ Loaded(plugins) # {}
  /\ last.wrote = <<Command("StopPlugin", Some("PluginNotFound"), Some(FALSE))>>

C4_ShutdownEndsLoop ==
  [][/\ \A raw \in PluginRaws :
          (Serves(raw) /\ raw.cmd = "ShutdownGuest")
            => /\ last'.wrote = <<>>
               /\ last'.inv = <<>>
               /\ calls' = calls
               /\ plugins' = plugins
               /\ pc' = "done"
     /\ pc = "done" => (runs' = runs + 1 /\ nRead' = 0 /\ pc' = "start")]_vars

C4_Witness ==
  /\ pc = "done"
  /\ last.at = "service"
  /\ last.raw.kind = "plugin"
  /\ last.raw.cmd = "ShutdownGuest"
  /\ last.wrote = <<>>
  /\ Loaded(plugins) # {}

\* The registry operation of the request raw succeeded in this step: the load
\* inserted the identifier, or the plugin's entry point was invoked.
Succeeded(raw) ==
  IF raw.cmd = "CreatePluginLinks"
  THEN plugins[raw.plugin] = NoHandle /\ plugins'[raw.plugin] # NoHandle
  ELSE last'.inv # <<>>

\* C5: every well-formed request other than ShutdownGuest and other than PluginCmd
\* with absent msg is answered, in the iteration that read it, by exactly one
\* Command carrying the inbound cmd tag, finished = true exactly when the registry
\* operation succeeded, and in resp what the plugin returned (absent for null).
C5_EveryRequestAnswered ==
  [][\A raw \in PluginRaws :
       (/\ Serves(raw)
        /\ raw.cmd # "ShutdownGuest"
        /\ ~(raw.cmd = "PluginCmd" /\ raw.msg = None))
         => /\ Len(last'.wrote) = 1
            /\ last'.wrote[1].cmd = raw.cmd
            /\ last'.wrote[1].finished = Some(Succeeded(raw))
            /\ last'.inv # <<>> => last'.wrote[1].resp = last'.inv[Len(last'.inv)].ret]_vars

\* C6: a service-phase message that is no PluginRequest is dropped: nothing is
\* written, no entry point is invoked, nothing but the count of messages read
\* changes, and the agent is still in the service loop.
C6_MalformedDropped ==
  [][\A raw \in RawMsgs :
       (Serves(raw) /\ raw.kind # "plugin")
         => /\ last'.wrote = <<>>
            /\ last'.inv = <<>>
            /\ pc' = "service"
            /\ UNCHANGED <<plugins, calls, okReqs, marker, runs, reqSent, provRun,
                           provAll, netRes, served>>]_vars

C6_Witness ==
  /\ pc = "service"
  /\ last.at = "service"
  /\ last.raw = Garbage
  /\ nRead = MaxMsgs
  /\ Loaded(plugins) # {}

\* C7: with the marker absent, the first descriptor list read is handed to the
\* provisioner and answered by exactly one GetNetwork response, finished = true
\* without resp or finished = false with the error's name, and the agent goes on
\* to the service phase (here: unless that transport write fails).
C7_ProvisioningNeverFatal ==
  [][\A raw \in RawMsgs :
       (pc = "boot_read" /\ StepRead(raw) /\ raw.kind = "nets")
         => /\ reqSent = 1
            /\ provRun' = provRun + 1
            /\ Len(last'.wrote) = 1
            /\ last'.wrote[1] \in
                 {Command("GetNetwork", None, Some(TRUE))}
                   \cup {Command("GetNetwork", Some(e), Some(FALSE)) :
                           e \in {"NicNotFound", "IOError"}}
            /\ pc' \in {"mark", "err"}]_vars

\* C8 as claimed: the service phase is reached only with the marker written, a run
\* that starts with the marker sends no GetNetwork request and provisions nothing,
\* and the provisioner is invoked at most once over all runs.
C8_ProvisionedOnceEver ==
  /\ pc = "service" => marker
  /\ marker => pc # "boot_read"
  /\ provAll <= 1

\* C8 as amended: a run that starts with the marker sends no GetNetwork request
\* and never invokes the provisioner; the service phase is reached only with the
\* marker written, so no run after one that reached the service phase provisions;
\* a run invokes the provisioner at most once, and only from the bootstrap loop.
\* (A run that ends between init_net and the marker's creation leaves the marker
\* absent, and the next run provisions again.)
C8_MarkerSkipsBootstrap ==
  [][/\ pc' = "service" => marker'
     /\ marker => (provAll' = provAll /\ reqSent' <= reqSent /\ pc' # "boot_read")
     /\ served => marker
     /\ provRun' <= 1
     /\ provAll' # provAll => (pc = "boot_read" /\ reqSent = 1)]_vars

C8_Witness ==
  /\ runs >= 1
  /\ pc = "service"
  /\ provAll = 1
  /\ provRun = 0
  /\ reqSent = 0
  /\ nRead > 0

\* C9: after a successful StopPlugin for X, X is still in the registry: a following
\* StartPlugin, or PluginCmd carrying a msg, for X is answered finished = true, and
\* a following CreatePluginLinks for X is answered "PluginLoaded".
C9_StopKeepsEntry ==
  [][\A X \in PluginIds :
       okReqs[<<X, "stop">>] > 0
         => /\ plugins[X] # NoHandle
            /\ \A raw \in PluginRaws :
                 (Serves(raw) /\ raw.plugin = X)
                   => /\ (raw.cmd = "StartPlugin" \/ (raw.cmd = "PluginCmd" /\ raw.msg # None))
                           => /\ Len(last'.wrote) = 1
                              /\ last'.wrote[1].finished = Some(TRUE)
                      /\ raw.cmd = "CreatePluginLinks"
                           => last'.wrote =
                                <<Command(raw.cmd, Some("PluginLoaded"), Some(FALSE))>>]_vars

\* C10: the number of stop() invocations on a plugin equals the number of
\* successful StopPlugin requests for it, and likewise start() with StartPlugin and
\* the process entry point with PluginCmd.
C10_OneInvocationPerRequest ==
  \A k \in PluginIds \X Fns : calls[k] = okReqs[k]

\* C11: a service-loop request whose cmd is none of CreatePluginLinks, StartPlugin,
\* PluginCmd, StopPlugin and ShutdownGuest (which is GetNetwork) is answered with one
\* response of the same cmd, resp = "PluginCommandNotSupported" and finished = false;
\* the registry is unchanged, no plugin function and no provisioner is invoked, and
\* the loop goes on unless the response could not be written.
C11_UnsupportedRejected ==
  [][\A raw \in PluginRaws :
       (/\ Serves(raw)
        /\ raw.cmd \notin {"CreatePluginLinks", "StartPlugin", "PluginCmd", "StopPlugin",
                            "ShutdownGuest"})
         => /\ last'.wrote =
                 <<Command(raw.cmd, Some("PluginCommandNotSupported"), Some(FALSE))>>
            /\ last'.inv = <<>>
            /\ pc' \in {"service", "err"}
            /\ UNCHANGED <<plugins, calls, okReqs, reqSent, provRun, provAll, netRes,
                           marker>>]_vars

C11_Witness ==
  /\ pc = "service"
  /\ last.at = "service"
  /\ last.raw.kind = "plugin"
  /\ last.raw.cmd = "GetNetwork"
  /\ last.wrote = <<Command("GetNetwork", Some("PluginCommandNotSupported"), Some(FALSE))>>
  /\ Loaded(plugins) # {}

\* The mask of a prefix: the top p of 32 bits set, as four octets, most significant
\* first.
CanonicalOctet(p, k) ==
  LET ones == IF p - 8 * (k - 1) >= 8 THEN 8
              ELSE IF p - 8 * (k - 1) <= 0 THEN 0 ELSE p - 8 * (k - 1)
  IN 256 - 2 ^ (8 - ones)
CanonicalMask(p) == [k \in 1..4 |-> CanonicalOctet(p, k)]

\* C12: for every prefix p in 0..32 the netmask the systemd backend computes is the
\* canonical mask of p: the top p bits set, most significant octet first (0.0.0.0
\* for p = 0, 255.255.255.255 for p = 32).
C12_NetmaskCanonical ==
  np.at \in {"masked", "panic"}
    => /\ np.at = "masked"
       /\ np.netmask = CanonicalMask(np.cidr)

\* The same for the prefixes 1..32, which the code gets right in both builds.
C12_NonZeroPrefixes ==
  (np.at \in {"masked", "panic"} /\ np.cidr # 0)
    => /\ np.at = "masked"
       /\ np.netmask = CanonicalMask(np.cidr)

\* Some interface carries this MAC; the name of the first that does.
Matches(mac, sys) == \E k \in 1..Len(sys) : sys[k].mac = mac
NicOf(mac, sys) ==
  sys[CHOOSE k \in 1..Len(sys) :
        sys[k].mac = mac /\ \A l \in 1..(k - 1) : sys[l].mac # mac].name
AllReadable(sys) == \A k \in 1..Len(sys) : sys[k].readable
HasUnmatched(nets, sys) == \E j \in 1..Len(nets) : ~Matches(nets[j].mac, sys)
FirstUnmatched(nets, sys) ==
  CHOOSE j \in 1..Len(nets) :
    ~Matches(nets[j].mac, sys) /\ \A k \in 1..(j - 1) : Matches(nets[k].mac, sys)
\* file is the interface file of descriptor net.
WroteFor(file, net, sys) ==
  /\ file.path = <<"ifcfg", NicOf(net.mac, sys)>>
  /\ file.body.hwaddr = net.mac
  /\ file.body.ipaddr = net.ip
  /\ file.body.gateway = net.gateway[1]
  /\ file.body.device = NicOf(net.mac, sys)
\* init_net has been left, by a return or by a panic.
NetLeft == np.at \in {"ret", "panic"}

\* C13 as stated: whenever some descriptor of the batch has a MAC no interface
\* carries, init_net fails with NicNotFound and runs no command; under netplan no
\* file is written, under systemd exactly the interface files of the descriptors
\* before the first unmatched one are written, in list order.
C13_UnmatchedIsNicNotFound ==
  (NetLeft /\ HasUnmatched(np.nets, np.env.sys))
    => LET j == FirstUnmatched(np.nets, np.env.sys)
       IN /\ np.res = "NicNotFound"
          /\ np.cmds = <<>>
          /\ np.env.netplan => np.files = <<>>
          /\ ~np.env.netplan =>
                /\ Len(np.files) = j - 1
                /\ \A k \in 1..(j - 1) : WroteFor(np.files[k], np.nets[k], np.env.sys)

\* C13, amended: with such a descriptor in the batch init_net never succeeds and
\* runs no command; it leaves the loop at or before the first unmatched descriptor;
\* it fails with NicNotFound exactly when it leaves at that descriptor with every
\* address file scanned readable (an unreadable one gives IOError); under netplan
\* no file is written, under systemd the files written are those of the
\* descriptors before the one it left at, in list order.
C13_UnmatchedFailsFast ==
  [][(np.at = "loop" /\ np'.at # "loop" /\ HasUnmatched(np.nets, np.env.sys))
       => LET j == FirstUnmatched(np.nets, np.env.sys)
          IN /\ np.i <= j
             /\ np'.res \in {"NicNotFound", "IOError", "panic"}
             /\ (np.i = j /\ AllReadable(np.env.sys)) => np'.res = "NicNotFound"
             /\ np'.res = "NicNotFound" => np.i = j
             /\ np'.cmds = <<>>
             /\ np.env.netplan => np'.files = <<>>
             /\ ~np.env.netplan =>
                   /\ Len(np'.files) = np.i - 1
                   /\ \A k \in 1..(np.i - 1) :
                        WroteFor(np'.files[k], np.nets[k], np.env.sys)]_vars

C13_Witness ==
  /\ np.at = "ret"
  /\ np.nets = <<NetA, NetX>>
  /\ ~np.env.netplan
  /\ np.res = "NicNotFound"
  /\ Len(np.files) = 1
  /\ np.files[1].path = <<"ifcfg", "eth0">>
  /\ np.cmds = <<>>

\* C14: with an empty descriptor list init_net returns Ok under either backend,
\* whatever the filesystem and the commands would do, having written no file and
\* run no command; the response main builds from that result has finished = true
\* and no resp.
C14_EmptyBatchSucceeds ==
  (NetLeft /\ np.nets = <<>>)
    => /\ np.at = "ret"
       /\ np.res = "Ok"
       /\ np.files = <<>>
       /\ np.cmds = <<>>
       /\ BootResponse(np.res) = Command("GetNetwork", None, Some(TRUE))

C14_Witness ==
  /\ np.at = "ret"
  /\ np.nets = <<>>
  /\ np.env.netplan
  /\ ~np.env.fsOk
  /\ ~np.env.cmdOk
  /\ np.res = "Ok"
  /\ np.files = <<>>
  /\ np.cmds = <<>>

\* Two descriptors of the batch name the same MAC.
HasSameMac(nets) ==
  \E i \in 1..Len(nets), j \in 1..Len(nets) : i < j /\ nets[i].mac = nets[j].mac
\* The last descriptor of the batch with the MAC of descriptor i.
LastOfMac(nets, i) ==
  CHOOSE k \in 1..Len(nets) :
    /\ nets[k].mac = nets[i].mac
    /\ \A l \in (k + 1)..Len(nets) : nets[l].mac # nets[i].mac
\* What the file at path holds after the writes: the body of the last write to it.
FileAt(files, path) ==
  files[CHOOSE k \in 1..Len(files) :
          /\ files[k].path = path
          /\ \A l \in (k + 1)..Len(files) : files[l].path # path].body
\* stanza is the netplan stanza of descriptor net.
StanzaFor(stanza, net, sys) ==
  /\ stanza.nic = NicOf(net.mac, sys)
  /\ stanza.ip = net.ip
  /\ stanza.gateway4 = net.gateway[1]
  /\ stanza.prefix = net.gateway[2]

\* C15: a batch with two descriptors of one MAC is processed in input order.  Under
\* systemd the k-th write is the file of the k-th descriptor, and once init_net has
\* returned Ok the interface's file holds the configuration of the last descriptor
\* with that MAC; under netplan the one document written holds the stanza of every
\* descriptor, both of that interface included, in input order.
C15_SameMacInOrder ==
  (NetLeft /\ HasSameMac(np.nets))
    => /\ ~np.env.netplan =>
            /\ \A k \in 1..Len(np.files) : WroteFor(np.files[k], np.nets[k], np.env.sys)
            /\ np.res = "Ok" =>
                 \A i \in 1..Len(np.nets) :
                   WroteFor([path |-> <<"ifcfg", NicOf(np.nets[i].mac, np.env.sys)>>,
                             body |-> FileAt(np.files,
                                             <<"ifcfg", NicOf(np.nets[i].mac, np.env.sys)>>)],
                            np.nets[LastOfMac(np.nets, i)], np.env.sys)
       /\ (np.env.netplan /\ np.res = "Ok") =>
            /\ Len(np.files) = 1
            /\ np.files[1].path = <<"netplan">>
            /\ Len(np.files[1].body) = Len(np.nets)
            /\ \A k \in 1..Len(np.nets) :
                 StanzaFor(np.files[1].body[k], np.nets[k], np.env.sys)

C15_Witness ==
  /\ np.at = "ret"
  /\ np.res = "Ok"
  /\ ~np.env.netplan
  /\ np.nets = <<NetA, NetA2>>
  /\ Len(np.files) = 2
  /\ np.files[1].path = np.files[2].path
  /\ np.files[1].body.ipaddr = "ipA"
  /\ FileAt(np.files, <<"ifcfg", "eth0">>).ipaddr = "ipC"

\* main has returned Err(IOError): the process is over, all that can follow is a
\* new process.
ErrIsFinal == pc = "err" => (runs' = runs + 1 /\ nRead' = 0 /\ pc' = "start")
\* This step is the bootstrap's call of init_net, and init_net returned IOError.
ProvisionerIOError == pc = "boot_read" /\ provRun' = provRun + 1 /\ netRes' = Some("IOError")

\* C16 as stated: an IOError is fatal wherever it arises.  Once main has ended with
\* the error no message is read any more, and when init_net returns IOError (an
\* address file could not be read) main ends with the error without writing a
\* response.
C16_IOErrorAlwaysFatal ==
  [][/\ ErrIsFinal
     /\ ProvisionerIOError => (pc' = "err" /\ last'.wrote = <<>>)]_vars

\* C16, amended: a transport failure is fatal, main ends with the error and reads
\* no further message; an IOError returned by init_net is answered like every
\* provisioning error, with resp = "IOError" and finished = false, and main goes on
\* to the marker and the service loop unless that write fails.
C16_TransportFatalProvisionerReported ==
  [][/\ ErrIsFinal
     /\ ProvisionerIOError =>
          /\ last'.wrote = <<Command("GetNetwork", Some("IOError"), Some(FALSE))>>
          /\ pc' \in {"mark", "err"}
     /\ pc' = "err" =>
          \/ pc = "start"
          \/ last'.wrote # <<>> /\ nRead' = nRead + 1]_vars

C16_Witness ==
  /\ pc = "service"
  /\ netRes = Some("IOError")
  /\ last.at = "service"
  /\ last.raw.kind = "plugin"
  /\ last.wrote # <<>>

\* The registry error this step's request runs into, "none" when it does not:
\* read from the request, the registry before the step and, for a load, what was
\* at the module's path.
RegistryError(raw) ==
  IF raw.cmd = "CreatePluginLinks"
  THEN IF plugins[raw.plugin] # NoHandle THEN "PluginLoaded"
       ELSE IF disk' # Some("ok") THEN "PluginNotFound" ELSE "none"
  ELSE IF raw.cmd \in {"StartPlugin", "PluginCmd", "StopPlugin"}
  THEN IF plugins[raw.plugin] = NoHandle THEN "PluginNotFound" ELSE "none"
  ELSE IF raw.cmd = "ShutdownGuest" THEN "none"
  ELSE "PluginCommandNotSupported"

\* C17: a service-loop request that runs into PluginNotFound, PluginLoaded or
\* PluginCommandNotSupported is answered with that error's name as resp and
\* finished = false, no plugin function is invoked, the registry is unchanged,
\* and main is back at reading the next message unless the response could not be
\* written; it never panics and never returns on such a request.
C17_RegistryErrorsReported ==
  [][\A raw \in PluginRaws :
       (Serves(raw) /\ RegistryError(raw) # "none")
         => /\ last'.wrote = <<Command(raw.cmd, Some(RegistryError(raw)), Some(FALSE))>>
            /\ last'.inv = <<>>
            /\ plugins' = plugins
            /\ pc' \in {"service", "err"}
            /\ runs' = runs]_vars

\* A registry error has been answered and main is in the loop, the registry as it
\* was and messages still to be read.
C17_Witness ==
  /\ pc = "service"
  /\ last.at = "service"
  /\ last.raw = PluginRaw("StopPlugin", "p1", None)
  /\ last.wrote = <<Command("StopPlugin", Some("PluginNotFound"), Some(FALSE))>>
  /\ plugins["p2"] # NoHandle
  /\ nRead < MaxMsgs

\* C18: while the process lives, an entry of the registry is never removed or
\* replaced, and the registry changes only in a step that serves a
\* CreatePluginLinks for an identifier not yet registered whose module loads: that
\* step adds exactly this identifier and answers finished = true.  Every other
\* step (Start, PluginCmd, Stop, unsupported, malformed, a failed or repeated
\* Create) leaves it as it is.
C18_RegistryOnlyGrows ==
  [][runs' = runs
       => /\ \A p \in PluginIds : plugins[p] # NoHandle => plugins'[p] = plugins[p]
          /\ plugins' # plugins =>
               \E X \in PluginIds :
                 /\ Serves(PluginRaw("CreatePluginLinks", X, None))
                 /\ plugins[X] = NoHandle
                 /\ disk' = Some("ok")
                 /\ Loaded(plugins') = Loaded(plugins) \cup {X}
                 /\ last'.wrote = <<Command("CreatePluginLinks", None, Some(TRUE))>>]_vars

\* Both plugins are registered and a StopPlugin has just been served.
C18_Witness ==
  /\ Loaded(plugins) = PluginIds
  /\ last.at = "service"
  /\ last.raw = PluginRaw("StopPlugin", "p1", None)
  /\ Len(last.inv) > 0
  /\ last.wrote # <<>>

\* C19: the backend is the one line 119 chose, for the whole batch, whatever
\* becomes of /etc/netplan meanwhile: under netplan nothing but the one document is
\* ever written, under systemd nothing but interface files.  No command runs while
\* the loop is still at a descriptor, and under netplan no file is written either;
\* at most one command ever runs, only after every descriptor was processed, the
\* netplan document (netplan) or all interface files (systemd) written before it;
\* a non-empty batch init_net returns Ok on has run exactly one, its backend's.
C19_OneBackendOneCommand ==
  /\ Len(np.cmds) <= 1
  /\ np.at = "loop" =>
       /\ np.cmds = <<>>
       /\ np.env.netplan => np.files = <<>>
  /\ np.cmds # <<>> =>
       /\ np.at = "ret"
       /\ np.res = "Ok"
       /\ np.i = Len(np.nets) + 1
  /\ np.env.netplan =>
       /\ Len(np.files) <= 1
       /\ \A k \in 1..Len(np.files) : np.files[k].path = <<"netplan">>
       /\ np.cmds \in {<<>>, <<"netplan apply">>}
       /\ np.cmds # <<>> => Len(np.files) = 1 /\ Len(np.files[1].body) = Len(np.nets)
  /\ ~np.env.netplan =>
       /\ \A k \in 1..Len(np.files) : np.files[k].path[1] = "ifcfg"
       /\ np.cmds \in {<<>>, <<"systemctl restart network">>}
       /\ np.cmds # <<>> => Len(np.files) = Len(np.nets)
  /\ (np.at = "ret" /\ np.res = "Ok" /\ Len(np.nets) > 0) => Len(np.cmds) = 1

\* A batch of two went through the netplan backend although /etc/netplan was gone
\* by the time init_net returned.
C19_Witness ==
  /\ np.at = "ret"
  /\ np.res = "Ok"
  /\ np.env.netplan
  /\ ~np.dirNow
  /\ np.nets = <<NetA, NetB>>
  /\ Len(np.files) = 1
  /\ np.cmds = <<"netplan apply">>

\* C20: CreatePluginLinks looks at the registry before the filesystem.  For an
\* identifier already registered the answer is PluginLoaded whatever is at the
\* module's path, a missing or unloadable file included; PluginNotFound is the
\* answer exactly for an identifier not registered whose file is missing or does
\* not load, and then nothing is inserted.
C20_RegistryBeforeFilesystem ==
  [][\A X \in PluginIds :
       Serves(PluginRaw("CreatePluginLinks", X, None))
         => /\ disk' \in {Some(fs) : fs \in FileStates}
            /\ plugins[X] # NoHandle =>
                 /\ last'.wrote =
                      <<Command("CreatePluginLinks", Some("PluginLoaded"), Some(FALSE))>>
                 /\ plugins' = plugins
            /\ (plugins[X] = NoHandle /\ disk' \in {Some("missing"), Some("unloadable")}) =>
                 /\ last'.wrote =
                      <<Command("CreatePluginLinks", Some("PluginNotFound"), Some(FALSE))>>
                 /\ plugins' = plugins
            /\ last'.wrote =
                 <<Command("CreatePluginLinks", Some("PluginNotFound"), Some(FALSE))>> =>
                 /\ plugins[X] = NoHandle
                 /\ disk' # Some("ok")
                 /\ plugins' = plugins]_vars

\* A registered identifier whose module file is gone has been answered PluginLoaded.
C20_Witness ==
  /\ last.at = "service"
  /\ last.raw = PluginRaw("CreatePluginLinks", "p1", None)
  /\ disk = Some("missing")
  /\ plugins["p1"] # NoHandle
  /\ last.wrote = <<Command("CreatePluginLinks", Some("PluginLoaded"), Some(FALSE))>>

\* What holds of a run in every state: one request and one provisioning at most;
\* in the bootstrap loop the request is out and nothing else has happened; a
\* service-loop read of a run that bootstrapped comes after the provisioning and
\* its response.
BootstrapOnce ==
  /\ reqSent <= 1
  /\ provRun <= 1
  /\ pc = "boot_read" =>
       /\ reqSent = 1
       /\ provRun = 0
       /\ netRes = None
       /\ last.at \in {"start", "boot_read"}
       /\ Loaded(plugins) = {}
       /\ calls = NoCalls
  /\ (last.at = "service" /\ reqSent = 1) => (provRun = 1 /\ netRes # None)

\* What a read of the bootstrap loop does with the reply raw.
BootstrapRead(raw) ==
  IF DecodeNets(raw) = None
  THEN /\ last'.wrote = <<>>
       /\ last'.inv = <<>>
       /\ pc' = "boot_read"
       /\ UNCHANGED <<reqSent, provRun, provAll, netRes, plugins, calls, okReqs, marker>>
  ELSE /\ provRun' = 1
       /\ provAll' = provAll + 1
       /\ pc' \in {"mark", "err", "panic"}
       /\ pc' # "panic" =>
            /\ Len(last'.wrote) = 1
            /\ last'.wrote[1].cmd = "GetNetwork"
            /\ last'.wrote[1].finished # None
            /\ netRes' # None
       /\ last'.inv = <<>>
       /\ UNCHANGED <<reqSent, plugins, calls, okReqs, marker>>

\* C21: in a run that bootstraps the GetNetwork request is sent once, however many
\* malformed replies arrive: a reply that is no descriptor list is dropped, with
\* no request re-sent, no response written and no provisioner call; the first
\* reply that is a descriptor list is provisioned, once, and answered, and ends the
\* loop; no message is handled as a plugin request before that.
C21_BootstrapAsksOnce ==
  /\ []BootstrapOnce
  /\ [][\A raw \in RawMsgs : (pc = "boot_read" /\ StepRead(raw)) => BootstrapRead(raw)]_vars

\* Two replies were dropped, the third was a descriptor list: one request, one
\* provisioning, the response written.
C21_Witness ==
  /\ pc = "mark"
  /\ nRead = 3
  /\ last.at = "boot_read"
  /\ last.raw.kind = "nets"
  /\ Len(last.wrote) = 1
  /\ reqSent = 1
  /\ provRun = 1

====
